---- MODULE Spec2Model ----
(***************************************************************************)
(* NativeVideoFrameExtractor (src/src/extractFramesNative.ts) and the      *)
(* frame encoder worker (src/unnamed/part_003): the seek / capture / flush *)
(* loop of extractFrames as a state machine.                               *)
(*                                                                         *)
(* Time is counted in whole seconds; the clamped seek position, which the  *)
(* code computes as duration - 0.1, is kept in tenths of a second.         *)
(* A picture (ImageBitmap) is identified by the loop index i at which it   *)
(* was captured.                                                           *)
(***************************************************************************)
EXTENDS Integers, Sequences, FiniteSets, TLC

(***************************************************************************)
(* Program constants.                                                      *)
(***************************************************************************)
MAX_SEEK_RETRIES == 3
MAX_CONSECUTIVE_FAILURES == 3
FLUSH_INTERVAL == 120

(***************************************************************************)
(* Bounds of the model.                                                    *)
(*   durations: 0 .. MaxShortDuration, MaxDuration - LongStep, MaxDuration *)
(*   frameInterval: 1 .. MaxInterval                                       *)
(*   the decoder misbehaves only on the CorruptLen target timestamps of    *)
(*   one corrupt region of the source; the region starts at index 0 or     *)
(*   CorruptLead indices before a multiple of FLUSH_INTERVAL.              *)
(***************************************************************************)
MaxShortDuration == 10
MaxDuration == 300
LongStep == 60
MaxInterval == 2
CorruptLen == 4
CorruptLead == 2

\* cleanup() is invoked at most this many times on one extractor
MaxCleanups == 3

\* the batches handed to the worker on its own
MaxBatch == 3
MaxPicture == 2
StartBelow == 1
MinStart == 0 - StartBelow
MaxStart == 2

\* iterations of each of two overlapping calls
MaxTwoFrames == 2

\* extractFrames calls made on one instance, one after the other
MaxCalls == 2

\* batchFrames and sampleFrames: frame lists of up to MaxUtilFrames frames
\* with timestamps 0 .. MaxStamp, second arguments -ArgBelow .. MaxArg, and
\* MaxExtraSteps loop iterations beyond one per frame
MaxUtilFrames == 3
MaxStamp == 2
ArgBelow == 1
MaxArg == 3
MaxExtraSteps == 1

Durations == (0..MaxShortDuration) \cup {MaxDuration - LongStep, MaxDuration}
Intervals == 1..MaxInterval
CorruptStarts ==
  {0} \cup {k * FLUSH_INTERVAL - CorruptLead : k \in 1..(MaxDuration \div FLUSH_INTERVAL)}

VARIABLES
  pc,                  \* position of the extractFrames call
  duration,            \* metadata.duration of the file
  frameInterval,       \* this.options.frameInterval
  corruptFrom,         \* first target index of the corrupt region of the file
  video,               \* this.video: "null", "created", "loaded"
  videoFailed,         \* a seek attempt has failed on the element this.video holds
  reinits,             \* reinitializeVideo calls made by the current seekWithRetry call
  canvas,              \* this.canvas / this.ctx are set
  worker,              \* this.worker: "null", "alive", "terminated"
  totalFrames, i, framesExtracted, consecutiveFailures,
  attempt,             \* seekWithRetry's loop variable
  frames,              \* the frames array
  bitmapBatch,         \* the bitmapBatch array (pictures by capture index)
  inbox,               \* messages posted to the worker, not yet handled
  reply,               \* messages posted by the worker, not yet handled
  result,              \* value the promise resolved with (<<>> wrapped)
  error,               \* error the promise rejected with
  frameError,          \* the error caught by the frame loop's catch
  seekError,           \* the error caught last by seekWithRetry's catch
  currentTime10,       \* video.currentTime set by the last seek, in tenths
  seekLog,             \* timestamps passed to seekWithRetry, in order
  seekCalls,           \* seekToTime calls made by the current seekWithRetry call
  failedIdx,           \* indices of the iterations that ended in the catch
  onFrameLog,          \* frames handed to onFrame, in order
  progressLog,         \* events handed to onProgress, in order
  flushLog,            \* messages sent to the worker, in order
  cleanups,            \* calls of cleanup()
  terminateCalls,      \* calls of worker.terminate()
  revokeCalls,         \* sessions released by cleanup() (revokeObjectURL)
  offscreenCanvases,   \* OffscreenCanvas objects the worker has constructed
  closedLog,           \* bitmaps the worker has closed, in order
  workerError,         \* the worker's handler threw: no reply will come
  workerTrace,         \* what the worker's last handler run did, in order
  setupCalls,          \* calls of setupCanvas so far: canvases created
  pendingSeek,         \* index of an earlier seek on this.video whose completion
                       \* signal has not been delivered, or -1
  seekedFor,           \* index of the seek whose signal ended the current
                       \* iteration's seekWithRetry, or -1
  held,                \* video elements that hold an unreleased object URL
  heldPeak,            \* the most such elements that ever existed at once
  captureTrace,        \* what the last capture did after the seek, in order
  two,                 \* two overlapping extractFrames calls on one instance
  util,                \* a call of batchFrames or sampleFrames: its arguments,
                       \* its loop position and what it has built
  abortAt,             \* the iteration during which the caller asked to abort, or -1
  calls                \* extractFrames calls made on the instance

vars == <<pc, duration, frameInterval, corruptFrom, video, canvas, worker,
          totalFrames, i, framesExtracted, consecutiveFailures, attempt, reinits,
          frames, bitmapBatch, inbox, reply, result, error, frameError, seekError,
          currentTime10, seekLog, seekCalls, failedIdx, onFrameLog, progressLog,
          flushLog, videoFailed, cleanups, terminateCalls, revokeCalls,
          offscreenCanvases, closedLog, workerError, workerTrace, setupCalls,
          pendingSeek, seekedFor, held, heldPeak, captureTrace, two,
          util, abortAt, calls>>

\* the state of the caller, which no step of a single call changes
ext == <<two, util, abortAt, calls>>
\* the inputs of the call and the state of the caller
env == <<duration, frameInterval, corruptFrom, ext>>
cln == <<cleanups, terminateCalls, revokeCalls>>
ses == <<held, heldPeak>>
sig == <<pendingSeek, seekedFor>>
res == <<video, videoFailed, canvas, worker, cln, ses>>
cnt == <<totalFrames, framesExtracted, consecutiveFailures>>
buf == <<frames, bitmapBatch>>
wrk == <<offscreenCanvases, closedLog, workerError, workerTrace>>
msg == <<inbox, reply, flushLog, wrk>>
out == <<result, error>>
cbs == <<onFrameLog, progressLog, captureTrace>>
skr == <<attempt, reinits, seekCalls, seekError, currentTime10>>

NoError == [kind |-> "none", timestamp |-> -1, cause |-> "none"]

(***************************************************************************)
(* Pure pieces of the code.                                                *)
(***************************************************************************)
TotalFrames_Inclusive(d, fi) == d \div fi + 1

\* Math.floor(duration / frameInterval)
TotalFrames(d, fi) == d \div fi

Timestamp_OneBased(k) == (k + 1) * frameInterval

\* const timestamp = i * this.options.frameInterval
Timestamp(k) == k * frameInterval

ClampedTime10_EarlyClamp(time, d) == IF time >= d - 1 THEN d * 10 - 1 ELSE time * 10

\* time >= duration ? duration - 0.1 : time   (in tenths of a second)
ClampedTime10(time, d) == IF time >= d THEN d * 10 - 1 ELSE time * 10

CanRetry_Inclusive(a) == a <= MAX_SEEK_RETRIES

\* attempt < MAX_SEEK_RETRIES: reinitialize and try again
CanRetry(a) == a < MAX_SEEK_RETRIES

TooManyFailures_Strict(cf) == cf > MAX_CONSECUTIVE_FAILURES

TooManyFailures_Early(cf) == cf >= MAX_CONSECUTIVE_FAILURES - 1

\* consecutiveFailures >= MAX_CONSECUTIVE_FAILURES
TooManyFailures(cf) == cf >= MAX_CONSECUTIVE_FAILURES

ShouldFlush_Late(n) == n > 1 /\ n % FLUSH_INTERVAL = 1

\* framesExtracted > 0 && framesExtracted % FLUSH_INTERVAL === 0
ShouldFlush(n) == n > 0 /\ n % FLUSH_INTERVAL = 0

\* encodeBatch(bitmapBatch, i - bitmapBatch.length)
PeriodicStartingIndex(k, len) == k - len

BatchNotEmpty_Always(len) == len >= 0

\* if (bitmapBatch.length > 0): encode the remaining frames
BatchNotEmpty(len) == len > 0

FinalStartingIndex_CountsSent(total, len) == total - len - len

\* encodeBatch(bitmapBatch, totalFrames - bitmapBatch.length)
FinalStartingIndex(total, len) == total - len

\* the ExtractedFrame pushed for a capture: blob: undefined
NewFrame(ts) == [timestamp |-> ts, data |-> "preview", blob |-> <<>>]

EncodeAll_LabelFromOne(m) ==
  [k \in 1..Len(m.bitmaps) |->
     [src |-> m.bitmaps[k], label |-> k + m.startingIndex]]

\* the worker's loop: the k-th blob is drawn from the k-th bitmap and
\* labelled k + startingIndex
EncodeAll(m) ==
  [k \in 1..Len(m.bitmaps) |->
     [src |-> m.bitmaps[k], label |-> (k - 1) + m.startingIndex]]

WorkerSteps_CloseAtEnd(n) ==
  [e \in 1..(3 * n + 1) |->
     IF e = 3 * n + 1 THEN [op |-> "postMessage", at |-> n]
     ELSE IF e <= 2 * n
       THEN [op |-> IF e % 2 = 1 THEN "drawImage" ELSE "convertToBlob",
             at |-> (e - 1) \div 2]
       ELSE [op |-> "close", at |-> e - 2 * n - 1]]

\* the worker's handler on n bitmaps, in program order: for each position
\* 0 .. n-1 drawImage (with its label), convertToBlob, close; then the reply
WorkerSteps(n) ==
  [e \in 1..(3 * n + 1) |->
     IF e = 3 * n + 1 THEN [op |-> "postMessage", at |-> n]
     ELSE [op |-> IF e % 3 = 1 THEN "drawImage"
                  ELSE IF e % 3 = 2 THEN "convertToBlob" ELSE "close",
           at |-> (e - 1) \div 3]]

\* the bitmaps a run of the handler closed, in the order it closed them
ClosedBy(steps, bitmaps) ==
  LET at == SelectSeq(steps, LAMBDA st : st.op = "close")
  IN [j \in 1..Len(at) |-> bitmaps[at[j].at + 1]]

WorkerHandle_NoEmptyGuard(m) ==
  IF Len(m.bitmaps) = 0
    THEN [blobs |-> <<>>, canvases |-> 0, steps |-> <<>>, closed |-> <<>>,
          threw |-> TRUE]
    ELSE [blobs |-> EncodeAll(m), canvases |-> 1,
          steps |-> WorkerSteps(Len(m.bitmaps)),
          closed |-> ClosedBy(WorkerSteps(Len(m.bitmaps)), m.bitmaps),
          threw |-> FALSE]

\* one run of the worker's onmessage handler: the blobs it posts, the
\* OffscreenCanvas objects it constructs, its steps, the bitmaps it closes
\* (in order) and whether it threw instead of posting
WorkerHandle(m) ==
  IF Len(m.bitmaps) = 0
    THEN [blobs |-> <<>>, canvases |-> 0, steps |-> WorkerSteps(0),
          closed |-> <<>>, threw |-> FALSE]
    ELSE [blobs |-> EncodeAll(m), canvases |-> 1,
          steps |-> WorkerSteps(Len(m.bitmaps)),
          closed |-> ClosedBy(WorkerSteps(Len(m.bitmaps)), m.bitmaps),
          threw |-> FALSE]

ProgressEvent_CountsIterations(n, k) ==
  [framesExtracted |-> k + 1, currentTime |-> Timestamp(k),
   totalDuration |-> duration, num |-> (k + 1) * 100, den |-> totalFrames]

\* the object handed to onProgress after the n-th capture, made in iteration
\* k; progress is the fraction num / den = ((k + 1) / totalFrames) * 100
ProgressEvent(n, k) ==
  [framesExtracted |-> n, currentTime |-> Timestamp(k),
   totalDuration |-> duration, num |-> (k + 1) * 100, den |-> totalFrames]

CaptureSteps_ProgressFirst(flush) ==
  <<"drawImage", "toDataURL", "createImageBitmap", "push", "onProgress", "onFrame">>
    \o (IF flush THEN <<"postMessage">> ELSE <<>>)

\* the statements of one iteration after the dimension check, in program
\* order; the batch is posted only when the flush condition holds
CaptureSteps(flush) ==
  <<"drawImage", "toDataURL", "createImageBitmap", "push", "onFrame", "onProgress">>
    \o (IF flush THEN <<"postMessage">> ELSE <<>>)

Snapshot_Alias(batch, k) == [j \in 1..(Len(batch) + 1) |-> k]

\* drawImage of frame k on the working canvas, createImageBitmap(canvas),
\* push: the batch as it reads afterwards. createImageBitmap copies the
\* canvas, so the pictures taken before still show their own frames
Snapshot(batch, k) == Append(batch, k)

AfterPost_NoAwait(p) == "loop"

\* const blobs = await this.encodeBatch(...): the loop is suspended at p
\* until the reply arrives
AfterPost(p) == p

Max2(a, b) == IF a >= b THEN a ELSE b

ReinitSteps_CreateFirst == <<"create", "release">>

\* reinitializeVideo: revokeObjectURL on the old element and its handlers
\* cleared, then createElement and loadVideo's createObjectURL
ReinitSteps == <<"release", "create">>

\* the number of elements holding a URL after each of the steps, from h
RECURSIVE HeldThrough(_, _)
HeldThrough(h, steps) ==
  IF steps = <<>> THEN <<>>
  ELSE LET h1 == IF Head(steps) = "release" THEN h - 1 ELSE h + 1
       IN <<h1>> \o HeldThrough(h1, Tail(steps))

\* the largest count in a sequence of counts, or p if that is larger
RECURSIVE PeakOf(_, _)
PeakOf(p, counts) ==
  IF counts = <<>> THEN p ELSE PeakOf(Max2(p, Head(counts)), Tail(counts))

\* the seek request a failed attempt leaves running on the element in
\* this.video: a timeout on the last attempt rejects while the element is
\* still seeking and no reinitialization replaces it; an attempt that is
\* retried is followed by reinitializeVideo, which clears the old element's
\* handlers; after a media error the element delivers no seeked event
LeftInFlight(kind, a, k) ==
  IF ~CanRetry(a) /\ kind = "SeekTimeout" THEN k ELSE -1

\* the decoder can fail on this target index
Corrupt(k) == corruptFrom <= k /\ k < corruptFrom + CorruptLen

\* two calls on one instance, neither started: where each call is, the index
\* of its loop, the creator of the element its last seek was issued on, and
\* the creators of the element in this.video and of the worker in
\* this.worker (0: the field is null)
TwoIdle ==
  [pc |-> <<"idle", "idle">>, k |-> <<0, 0>>, seekOn |-> <<0, 0>>,
   video |-> 0, worker |-> 0]

\* no utility function has been called
UtilIdle ==
  [fn |-> "none", frames |-> <<>>, arg |-> 0, pc |-> "idle", k |-> 0,
   acc |-> <<>>, last |-> 0]

(***************************************************************************)
(* Initial state: a constructed extractor, extractFrames not yet called.   *)
(***************************************************************************)
Init ==
  /\ pc = "idle"
  /\ duration \in Durations
  /\ frameInterval \in Intervals
  /\ corruptFrom \in CorruptStarts
  /\ video = "null" /\ canvas = FALSE /\ worker = "null"
  /\ totalFrames = 0 /\ i = 0 /\ framesExtracted = 0 /\ consecutiveFailures = 0
  /\ attempt = 0 /\ reinits = 0 /\ seekCalls = 0 /\ seekError = "none"
  /\ frames = <<>> /\ bitmapBatch = <<>>
  /\ inbox = <<>> /\ reply = <<>>
  /\ result = <<>> /\ error = NoError /\ frameError = NoError
  /\ currentTime10 = 0
  /\ seekLog = <<>> /\ failedIdx = {}
  /\ onFrameLog = <<>> /\ progressLog = <<>> /\ flushLog = <<>>
  /\ videoFailed = FALSE
  /\ cleanups = 0 /\ terminateCalls = 0 /\ revokeCalls = 0
  /\ offscreenCanvases = 0 /\ closedLog = <<>> /\ workerError = FALSE
  /\ workerTrace = <<>>
  /\ setupCalls = 0
  /\ held = 0 /\ heldPeak = 0
  /\ pendingSeek = -1 /\ seekedFor = -1
  /\ captureTrace = <<>>
  /\ two = TwoIdle
  /\ util = UtilIdle
  /\ abortAt = -1
  /\ calls = 0

Cleanup_Unguarded ==
  /\ cleanups' = cleanups + 1
  /\ video' = "null"
  /\ videoFailed' = FALSE
  /\ revokeCalls' = revokeCalls + 1
  /\ held' = IF video # "null" THEN held - 1 ELSE held
  /\ heldPeak' = heldPeak
  /\ worker' = IF worker = "alive" THEN "terminated" ELSE worker
  /\ terminateCalls' = terminateCalls + 1
  /\ canvas' = FALSE

\* cleanup(): the video's source is released, the worker terminated, the
\* canvas dropped
Cleanup ==
  /\ cleanups' = cleanups + 1
  /\ video' = "null"
  /\ videoFailed' = FALSE
  /\ revokeCalls' = IF video # "null" THEN revokeCalls + 1 ELSE revokeCalls
  /\ held' = IF video # "null" THEN held - 1 ELSE held
  /\ heldPeak' = heldPeak
  /\ worker' = IF worker = "alive" THEN "terminated" ELSE worker
  /\ terminateCalls' = IF worker = "alive" THEN terminateCalls + 1 ELSE terminateCalls
  /\ canvas' = FALSE

Reject_NoFinally(e) ==
  /\ error' = e
  /\ pc' = "rejected"
  /\ UNCHANGED <<res, result>>

\* throw out of the outer try: catch (rethrow), finally cleanup, reject
Reject(e) ==
  /\ error' = e
  /\ pc' = "rejected"
  /\ Cleanup
  /\ UNCHANGED result

\* return frames; finally cleanup
Resolve(fs) ==
  /\ result' = <<fs>>
  /\ pc' = "resolved"
  /\ Cleanup
  /\ UNCHANGED error

\* this.worker = new FrameEncoderWorker(); this.video = createElement('video');
\* loadVideo(file) is pending
Start ==
  /\ pc = "idle"
  /\ worker' = "alive"
  /\ video' = "created"
  /\ held' = held + 1
  /\ heldPeak' = Max2(heldPeak, held + 1)
  /\ pc' = "loading"
  /\ calls' = calls + 1
  /\ UNCHANGED <<duration, frameInterval, corruptFrom, two, util, abortAt, videoFailed,
                 canvas, cln, cnt, i, skr, buf, msg, out, frameError, seekLog,
                 failedIdx, cbs>>
  /\ UNCHANGED <<setupCalls, sig>>

LoadedMetadata_NoCanvasCheck(ctxOk) ==
  /\ pc = "loading"
  /\ video' = "loaded"
  /\ canvas' = ctxOk
  /\ setupCalls' = setupCalls + 1
  /\ totalFrames' = TotalFrames(duration, frameInterval)
  /\ pc' = "loop"
  /\ UNCHANGED <<videoFailed, worker, cln, ses, out>>
  /\ UNCHANGED <<env, i, framesExtracted, consecutiveFailures, skr, buf, msg,
                 frameError, seekLog, failedIdx, cbs, sig>>

\* onloadedmetadata: setupCanvas, the canvas check, totalFrames
LoadedMetadata(ctxOk) ==
  /\ pc = "loading"
  /\ setupCalls' = setupCalls + 1
  /\ IF ctxOk
       THEN /\ video' = "loaded"
            /\ canvas' = TRUE
            /\ totalFrames' = TotalFrames(duration, frameInterval)
            /\ pc' = "loop"
            /\ UNCHANGED <<videoFailed, worker, cln, ses, out>>
       ELSE /\ Reject([kind |-> "CanvasUnavailable", timestamp |-> -1, cause |-> "none"])
            /\ UNCHANGED totalFrames
  /\ UNCHANGED <<env, i, framesExtracted, consecutiveFailures, skr, buf, msg,
                 frameError, seekLog, failedIdx, cbs, sig>>

\* onerror or the 30 s timeout of the first loadVideo
LoadFails(kind) ==
  /\ pc = "loading"
  /\ Reject([kind |-> kind, timestamp |-> -1, cause |-> "none"])
  /\ UNCHANGED <<env, cnt, i, skr, buf, msg, frameError, seekLog, failedIdx, cbs>>
  /\ UNCHANGED <<setupCalls, sig>>

ReinitializeVideo_SameElement ==
  /\ video' = "created"
  /\ videoFailed' = TRUE
  /\ reinits' = reinits + 1
  /\ UNCHANGED ses

ReinitializeVideo_Twice ==
  /\ video' = "created"
  /\ videoFailed' = FALSE
  /\ reinits' = reinits + 2
  /\ held' = HeldThrough(held, ReinitSteps)[Len(ReinitSteps)]
  /\ heldPeak' = PeakOf(heldPeak, HeldThrough(held, ReinitSteps))

\* reinitializeVideo(file) up to its loadVideo: the old element is released,
\* a new one is created
ReinitializeVideo ==
  /\ video' = "created"
  /\ videoFailed' = FALSE
  /\ reinits' = reinits + 1
  /\ held' = HeldThrough(held, ReinitSteps)[Len(ReinitSteps)]
  /\ heldPeak' = PeakOf(heldPeak, HeldThrough(held, ReinitSteps))

\* seekToTime(time): handlers installed, video.currentTime = clampedTime
SeekToTime(time) ==
  /\ currentTime10' = ClampedTime10(time, duration)
  /\ seekCalls' = seekCalls + 1

\* for (i < totalFrames): timestamp, seekWithRetry(timestamp, file): attempt 1
LoopSeek ==
  /\ pc = "loop"
  /\ i < totalFrames
  /\ seekLog' = Append(seekLog, Timestamp(i))
  /\ attempt' = 1
  /\ reinits' = 0
  /\ seekCalls' = 1
  /\ seekError' = "none"
  /\ currentTime10' = ClampedTime10(Timestamp(i), duration)
  /\ frameError' = NoError
  /\ pc' = "seeking"
  /\ seekedFor' = -1
  /\ UNCHANGED <<env, res, cnt, i, buf, msg, out, failedIdx, cbs>>
  /\ UNCHANGED <<setupCalls, pendingSeek>>

CatchFrameError_KeepsCount(e, failed) ==
  /\ frameError' = e
  /\ consecutiveFailures' = IF consecutiveFailures = 0 THEN 1 ELSE consecutiveFailures
  /\ failedIdx' = failedIdx \cup {i}
  /\ IF TooManyFailures(IF consecutiveFailures = 0 THEN 1 ELSE consecutiveFailures)
       THEN /\ Reject([kind |-> "ConsecutiveFailures", timestamp |-> Timestamp(i),
                       cause |-> e.kind])
            /\ UNCHANGED i
       ELSE /\ i' = i + 1
            /\ pc' = "loop"
            /\ videoFailed' = failed
            /\ UNCHANGED <<video, canvas, worker, cln, ses, out>>
  /\ UNCHANGED <<env, totalFrames, framesExtracted, buf, msg, seekLog, cbs>>

\* catch (frameError): count, abort on the limit, else skip the frame
CatchFrameError(e, failed) ==
  /\ frameError' = e
  /\ consecutiveFailures' = consecutiveFailures + 1
  /\ failedIdx' = failedIdx \cup {i}
  /\ IF TooManyFailures(consecutiveFailures + 1)
       THEN /\ Reject([kind |-> "ConsecutiveFailures", timestamp |-> Timestamp(i),
                       cause |-> e.kind])
            /\ UNCHANGED i
       ELSE /\ i' = i + 1
            /\ pc' = "loop"
            /\ videoFailed' = failed
            /\ UNCHANGED <<video, canvas, worker, cln, ses, out>>
  /\ UNCHANGED <<env, totalFrames, framesExtracted, buf, msg, seekLog, cbs>>

SeekFails_NoTimer(kind) ==
  /\ kind # "SeekTimeout"
  /\ pc = "seeking"
  /\ Corrupt(i)
  /\ seekError' = kind
  /\ IF CanRetry(attempt)
       THEN /\ ReinitializeVideo
            /\ pc' = "reloading"
            /\ UNCHANGED <<env, canvas, worker, cln, cnt, i, buf, msg, out,
                           frameError, seekLog, failedIdx, cbs>>
       ELSE /\ CatchFrameError([kind |-> "SeekFailure", timestamp |-> Timestamp(i),
                                cause |-> kind], TRUE)
            /\ UNCHANGED reinits
  /\ pendingSeek' = LeftInFlight(kind, attempt, i)
  /\ UNCHANGED <<attempt, seekCalls, currentTime10>>
  /\ UNCHANGED <<setupCalls, seekedFor>>

\* a seekToTime promise rejects (onerror or the 5 s timeout)
SeekFails(kind) ==
  /\ pc = "seeking"
  /\ Corrupt(i)
  /\ seekError' = kind
  /\ IF CanRetry(attempt)
       THEN \* reinitializeVideo: release the old element, create a new one,
            \* loadVideo pending
            /\ ReinitializeVideo
            /\ pc' = "reloading"
            /\ UNCHANGED <<env, canvas, worker, cln, cnt, i, buf, msg, out,
                           frameError, seekLog, failedIdx, cbs>>
       ELSE /\ CatchFrameError([kind |-> "SeekFailure", timestamp |-> Timestamp(i),
                                cause |-> kind], TRUE)
            /\ UNCHANGED reinits
  /\ pendingSeek' = LeftInFlight(kind, attempt, i)
  /\ UNCHANGED <<attempt, seekCalls, currentTime10>>
  /\ UNCHANGED <<setupCalls, seekedFor>>

ReloadOk_DropsBatch ==
  /\ pc = "reloading"
  /\ video' = "loaded"
  /\ attempt' = attempt + 1
  /\ SeekToTime(Timestamp(i))
  /\ pc' = "seeking"
  /\ bitmapBatch' = <<>>
  /\ UNCHANGED <<env, videoFailed, canvas, worker, cln, ses, cnt, i, reinits, seekError,
                 frames, msg, out, frameError, seekLog, failedIdx, cbs>>
  /\ UNCHANGED <<setupCalls, sig>>

\* the reload inside reinitializeVideo succeeds: next attempt
ReloadOk ==
  /\ pc = "reloading"
  /\ video' = "loaded"
  /\ attempt' = attempt + 1
  /\ SeekToTime(Timestamp(i))
  /\ pc' = "seeking"
  /\ UNCHANGED <<env, videoFailed, canvas, worker, cln, ses, cnt, i, reinits, seekError,
                 buf, msg, out, frameError, seekLog, failedIdx, cbs>>
  /\ UNCHANGED <<setupCalls, sig>>

ReloadFails_SeeksAgain(kind) ==
  /\ pc = "reloading"
  /\ attempt' = attempt + 1
  /\ SeekToTime(Timestamp(i))
  /\ pc' = "seeking"
  /\ UNCHANGED <<env, res, cnt, i, reinits, seekError, buf, msg, out, frameError,
                 seekLog, failedIdx, cbs, setupCalls, sig>>

\* the reload inside reinitializeVideo fails: the rejection leaves
\* seekWithRetry through its catch block and reaches the frame loop's catch
ReloadFails(kind) ==
  /\ pc = "reloading"
  /\ CatchFrameError([kind |-> kind, timestamp |-> -1, cause |-> "none"],
                     videoFailed)
  /\ UNCHANGED skr
  /\ UNCHANGED <<setupCalls, sig>>

\* onseeked: seekWithRetry returns
SeekOk ==
  /\ pc = "seeking"
  /\ pc' = "seeked"
  /\ seekedFor' = i
  /\ pendingSeek' = -1
  /\ UNCHANGED <<env, res, cnt, i, skr, buf, msg, out, frameError, seekLog,
                 failedIdx, cbs>>
  /\ UNCHANGED setupCalls

ZeroDimensions_NotCounted ==
  /\ pc = "seeked"
  /\ Corrupt(i)
  /\ frameError' = [kind |-> "NoDimensions", timestamp |-> -1, cause |-> "none"]
  /\ failedIdx' = failedIdx \cup {i}
  /\ i' = i + 1
  /\ pc' = "loop"
  /\ UNCHANGED <<env, res, cnt, skr, buf, msg, out, seekLog, cbs, setupCalls, sig>>

\* videoWidth === 0 || videoHeight === 0
ZeroDimensions ==
  /\ pc = "seeked"
  /\ Corrupt(i)
  /\ CatchFrameError([kind |-> "NoDimensions", timestamp |-> -1, cause |-> "none"],
                     videoFailed)
  /\ UNCHANGED skr
  /\ UNCHANGED <<setupCalls, sig>>

\* draw, toDataURL, createImageBitmap, push, count, callbacks, periodic flush
Capture ==
  /\ pc = "seeked"
  /\ bitmapBatch' = Snapshot(bitmapBatch, i)
  /\ frames' = Append(frames, NewFrame(Timestamp(i)))
  /\ framesExtracted' = framesExtracted + 1
  /\ consecutiveFailures' = 0
  /\ onFrameLog' = Append(onFrameLog, NewFrame(Timestamp(i)))
  /\ progressLog' = Append(progressLog, ProgressEvent(framesExtracted + 1, i))
  /\ captureTrace' = CaptureSteps(ShouldFlush(framesExtracted + 1))
  /\ IF ShouldFlush(framesExtracted + 1)
       THEN LET m == [bitmaps |-> Snapshot(bitmapBatch, i),
                      startingIndex |->
                        PeriodicStartingIndex(i, Len(bitmapBatch) + 1)]
            IN /\ inbox' = Append(inbox, m)
               /\ flushLog' = Append(flushLog, m)
               /\ pc' = AfterPost("flushing")
               /\ UNCHANGED <<i, reply, wrk>>
       ELSE /\ i' = i + 1
            /\ pc' = "loop"
            /\ UNCHANGED msg
  /\ UNCHANGED <<env, res, totalFrames, skr, out, frameError, seekLog, failedIdx>>
  /\ UNCHANGED <<setupCalls, sig>>

\* the worker's onmessage: encode every bitmap, post the blobs
WorkerEncode ==
  /\ worker = "alive"
  /\ inbox # <<>>
  /\ LET r == WorkerHandle(Head(inbox))
     IN /\ reply' = IF r.threw THEN reply ELSE Append(reply, r.blobs)
        /\ offscreenCanvases' = offscreenCanvases + r.canvases
        /\ closedLog' = closedLog \o r.closed
        /\ workerError' = (workerError \/ r.threw)
        /\ workerTrace' = r.steps
  /\ inbox' = Tail(inbox)
  /\ UNCHANGED <<pc, i, env, res, cnt, skr, buf, out, frameError, seekLog,
                 failedIdx, cbs, flushLog>>
  /\ UNCHANGED <<setupCalls, sig>>

FlushDone_KeepsBatch ==
  /\ pc = "flushing"
  /\ reply # <<>>
  /\ reply' = Tail(reply)
  /\ frames' = <<>>
  /\ i' = i + 1
  /\ pc' = "loop"
  /\ UNCHANGED <<env, res, cnt, skr, bitmapBatch, inbox, flushLog, wrk, out,
                 frameError, seekLog, failedIdx, cbs>>
  /\ UNCHANGED <<setupCalls, sig>>

\* the periodic encodeBatch resolves: both arrays are emptied
FlushDone ==
  /\ pc = "flushing"
  /\ reply # <<>>
  /\ reply' = Tail(reply)
  /\ frames' = <<>>
  /\ bitmapBatch' = <<>>
  /\ i' = i + 1
  /\ pc' = "loop"
  /\ UNCHANGED <<env, res, cnt, skr, inbox, flushLog, wrk, out, frameError,
                 seekLog, failedIdx, cbs>>
  /\ UNCHANGED <<setupCalls, sig>>

\* the loop is over: final batch, or return
LoopEnd ==
  /\ pc = "loop"
  /\ i >= totalFrames
  /\ IF BatchNotEmpty(Len(bitmapBatch))
       THEN LET m == [bitmaps |-> bitmapBatch,
                      startingIndex |->
                        FinalStartingIndex(totalFrames, Len(bitmapBatch))]
            IN /\ inbox' = Append(inbox, m)
               /\ flushLog' = Append(flushLog, m)
               /\ pc' = "finalFlushing"
               /\ UNCHANGED <<res, out, reply, wrk>>
       ELSE /\ Resolve(frames)
            /\ UNCHANGED msg
  /\ UNCHANGED <<env, cnt, i, skr, buf, frameError, seekLog, failedIdx, cbs>>
  /\ UNCHANGED <<setupCalls, sig>>

\* the final encodeBatch resolves: bitmapBatch is emptied, frames returned
FinalFlushDone ==
  /\ pc = "finalFlushing"
  /\ reply # <<>>
  /\ reply' = Tail(reply)
  /\ bitmapBatch' = <<>>
  /\ Resolve(frames)
  /\ UNCHANGED <<env, cnt, i, skr, frames, inbox, flushLog, wrk, frameError,
                 seekLog, failedIdx, cbs>>
  /\ UNCHANGED <<setupCalls, sig>>

Next ==
  \/ Start
  \/ \E ctxOk \in BOOLEAN : LoadedMetadata(ctxOk)
  \/ \E kind \in {"LoadError", "LoadTimeout"} : LoadFails(kind)
  \/ LoopSeek
  \/ \E kind \in {"MediaError", "SeekTimeout"} : SeekFails(kind)
  \/ ReloadOk
  \/ \E kind \in {"LoadError", "LoadTimeout"} : ReloadFails(kind)
  \/ SeekOk
  \/ ZeroDimensions
  \/ Capture
  \/ WorkerEncode
  \/ FlushDone
  \/ LoopEnd
  \/ FinalFlushDone

Spec == Init /\ [][Next]_vars

(***************************************************************************)
(* The program with two more events: the worker's handler fails while it   *)
(* encodes a batch, and cleanup() is invoked again on an extractor that    *)
(* has been cleaned up.                                                    *)
(***************************************************************************)
\* convertToBlob rejects (or drawImage throws) at a picture of the batch,
\* the first or the last: the async handler ends without postMessage
WorkerFails(atLast) ==
  /\ worker = "alive"
  /\ inbox # <<>>
  /\ LET m == Head(inbox)
         k == IF atLast THEN Len(m.bitmaps) ELSE 1
     IN /\ Len(m.bitmaps) > 0
        /\ offscreenCanvases' = offscreenCanvases + 1
        /\ workerTrace' = SubSeq(WorkerSteps(k), 1, 3 * (k - 1) + 1)
        /\ closedLog' = closedLog
                          \o ClosedBy(SubSeq(WorkerSteps(k), 1, 3 * (k - 1) + 1),
                                      m.bitmaps)
  /\ workerError' = TRUE
  /\ inbox' = Tail(inbox)
  /\ UNCHANGED <<pc, i, env, res, cnt, skr, buf, reply, flushLog, out, frameError,
                 seekLog, failedIdx, cbs>>
  /\ UNCHANGED <<setupCalls, sig>>

\* cleanup() on an extractor whose extractFrames call has settled
CleanupAgain ==
  /\ pc \in {"resolved", "rejected"}
  /\ cleanups < MaxCleanups
  /\ Cleanup
  /\ UNCHANGED <<pc, i, env, cnt, skr, buf, msg, out, frameError, seekLog,
                 failedIdx, cbs>>
  /\ UNCHANGED <<setupCalls, sig>>

NextExt ==
  \/ Next
  \/ \E atLast \in BOOLEAN : WorkerFails(atLast)
  \/ CleanupAgain

SpecExt == Init /\ [][NextExt]_vars

(***************************************************************************)
(* The program with callbacks that can throw.  A callback throws only for  *)
(* frames of the same region of the source in which the decoder can fail.  *)
(***************************************************************************)
\* onFrame or onProgress throws: the picture and the frame have been pushed,
\* framesExtracted incremented and consecutiveFailures reset; the throw
\* skips the rest of the try block (the flush test included) and lands in
\* catch (frameError)
CaptureThrows(which) ==
  /\ pc = "seeked"
  /\ Corrupt(i)
  /\ bitmapBatch' = Snapshot(bitmapBatch, i)
  /\ frames' = Append(frames, NewFrame(Timestamp(i)))
  /\ framesExtracted' = framesExtracted + 1
  /\ onFrameLog' = Append(onFrameLog, NewFrame(Timestamp(i)))
  /\ progressLog' = IF which = "onProgress"
                      THEN Append(progressLog, ProgressEvent(framesExtracted + 1, i))
                      ELSE progressLog
  /\ captureTrace' = IF which = "onProgress"
                       THEN SubSeq(CaptureSteps(FALSE), 1, 6)
                       ELSE SubSeq(CaptureSteps(FALSE), 1, 5)
  /\ frameError' = [kind |-> "CallbackError", timestamp |-> -1, cause |-> which]
  /\ consecutiveFailures' = 0 + 1
  /\ failedIdx' = failedIdx \cup {i}
  /\ IF TooManyFailures(0 + 1)
       THEN /\ Reject([kind |-> "ConsecutiveFailures", timestamp |-> Timestamp(i),
                       cause |-> "CallbackError"])
            /\ UNCHANGED i
       ELSE /\ i' = i + 1
            /\ pc' = "loop"
            /\ UNCHANGED <<res, out>>
  /\ UNCHANGED <<env, totalFrames, skr, msg, seekLog>>
  /\ UNCHANGED <<setupCalls, sig>>

NextThrow ==
  \/ Next
  \/ \E which \in {"onFrame", "onProgress"} : CaptureThrows(which)

InitThrow ==
  /\ Init
  /\ frameInterval = 1
  /\ \/ duration = MaxShortDuration /\ corruptFrom = 0
     \/ duration = MaxDuration - LongStep /\ corruptFrom = FLUSH_INTERVAL - CorruptLead

SpecThrow == InitThrow /\ [][NextThrow]_vars

(***************************************************************************)
(* Two extractFrames calls on one extractor that overlap in time.  Each    *)
(* call runs MaxTwoFrames iterations; the calls share the instance fields  *)
(* this.video and this.worker.                                             *)
(***************************************************************************)
\* this.worker = new FrameEncoderWorker(); this.video = createElement('video');
\* loadVideo attaches its handlers to that element
TwoStart(r) ==
  /\ two.pc[r] = "idle"
  /\ two' = [two EXCEPT !.pc[r] = "loading", !.video = r, !.worker = r]
  /\ UNCHANGED <<setupCalls, sig>>

\* onloadedmetadata of the call's own element: resolve reads this.video!,
\* which throws when the field is null, and then the 30 s timer rejects
TwoLoaded(r) ==
  /\ two.pc[r] = "loading"
  /\ IF two.video = 0
       THEN two' = [two EXCEPT !.pc[r] = "done", !.video = 0, !.worker = 0]
       ELSE two' = [two EXCEPT !.pc[r] = "loop"]
  /\ UNCHANGED <<setupCalls, sig>>

\* seekWithRetry: seekToTime installs its handlers on whatever this.video
\* holds; on a null field it rejects and reinitializeVideo creates an element
TwoSeek(r) ==
  /\ two.pc[r] = "loop"
  /\ two.k[r] < MaxTwoFrames
  /\ IF two.video = 0
       THEN two' = [two EXCEPT !.pc[r] = "seeking", !.video = r, !.seekOn[r] = r]
       ELSE two' = [two EXCEPT !.pc[r] = "seeking", !.seekOn[r] = two.video]
  /\ UNCHANGED <<setupCalls, sig>>

\* the seek fails: reinitializeVideo releases the element in this.video and
\* creates a new one, the retry seeks on it
TwoSeekFails(r) ==
  /\ two.pc[r] = "seeking"
  /\ two' = [two EXCEPT !.video = r, !.seekOn[r] = r]
  /\ UNCHANGED <<setupCalls, sig>>

\* onseeked: the frame is drawn from this.video, next iteration
TwoSeeked(r) ==
  /\ two.pc[r] = "seeking"
  /\ two' = [two EXCEPT !.pc[r] = "loop", !.k[r] = two.k[r] + 1]
  /\ UNCHANGED <<setupCalls, sig>>

\* the loop is over: return, finally cleanup() nulls this.video and
\* terminates whatever this.worker holds
TwoFinish(r) ==
  /\ two.pc[r] = "loop"
  /\ two.k[r] >= MaxTwoFrames
  /\ two' = [two EXCEPT !.pc[r] = "done", !.video = 0, !.worker = 0]
  /\ UNCHANGED <<setupCalls, sig>>

NextTwo ==
  /\ \E r \in 1..2 :
       \/ TwoStart(r)
       \/ TwoLoaded(r)
       \/ TwoSeek(r)
       \/ TwoSeekFails(r)
       \/ TwoSeeked(r)
       \/ TwoFinish(r)
  /\ UNCHANGED <<pc, duration, frameInterval, corruptFrom, util, abortAt, calls, res, cnt,
                 i, skr, buf, msg, out, frameError, seekLog, failedIdx, cbs>>

InitTwo ==
  /\ Init
  /\ duration = MaxTwoFrames /\ frameInterval = 1 /\ corruptFrom = 0

SpecTwo == InitTwo /\ [][NextTwo]_vars

(***************************************************************************)
(* The worker on its own: one message of 0 .. MaxBatch pictures, drawn     *)
(* from the pictures 0 .. MaxPicture, with a startingIndex in              *)
(* MinStart .. MaxStart, is waiting in its inbox.                          *)
(***************************************************************************)
RECURSIVE SeqsUpTo(_, _)
\* the sequences over S of length at most n
SeqsUpTo(S, n) ==
  IF n = 0 THEN {<<>>}
  ELSE LET shorter == SeqsUpTo(S, n - 1)
       IN shorter \cup {Append(q, x) : q \in shorter, x \in S}

Batches ==
  [bitmaps : SeqsUpTo(0..MaxPicture, MaxBatch), startingIndex : MinStart..MaxStart]

InitEncoder ==
  /\ pc = "encoding"
  /\ duration = 0 /\ frameInterval = 1 /\ corruptFrom = 0
  /\ video = "null" /\ canvas = FALSE /\ worker = "alive"
  /\ totalFrames = 0 /\ i = 0 /\ framesExtracted = 0 /\ consecutiveFailures = 0
  /\ attempt = 0 /\ reinits = 0 /\ seekCalls = 0 /\ seekError = "none"
  /\ frames = <<>> /\ bitmapBatch = <<>>
  /\ \E m \in Batches : inbox = <<m>> /\ flushLog = <<m>>
  /\ reply = <<>>
  /\ result = <<>> /\ error = NoError /\ frameError = NoError
  /\ currentTime10 = 0
  /\ seekLog = <<>> /\ failedIdx = {}
  /\ onFrameLog = <<>> /\ progressLog = <<>>
  /\ videoFailed = FALSE
  /\ cleanups = 0 /\ terminateCalls = 0 /\ revokeCalls = 0
  /\ offscreenCanvases = 0 /\ closedLog = <<>> /\ workerError = FALSE
  /\ workerTrace = <<>>
  /\ setupCalls = 0
  /\ held = 0 /\ heldPeak = 0
  /\ pendingSeek = -1 /\ seekedFor = -1
  /\ captureTrace = <<>>
  /\ two = TwoIdle
  /\ util = UtilIdle
  /\ abortAt = -1
  /\ calls = 0

SpecEncoder == InitEncoder /\ [][WorkerEncode]_vars

(***************************************************************************)
(* The same program under the scheduling its environment guarantees: the   *)
(* extractor's own continuations run, the timers of seekToTime (5 s) and   *)
(* loadVideo (30 s) fire, the worker handles its messages, and the decoder *)
(* signals seeked outside the corrupt region.  Inside the corrupt region   *)
(* the decoder may never signal.  One short and one long source.           *)
(***************************************************************************)
InitLive ==
  /\ Init
  /\ corruptFrom = 0
  /\ frameInterval = MaxInterval
  /\ duration \in {MaxShortDuration, MaxDuration - LongStep}

LiveFair ==
  /\ WF_vars(Start \/ LoopSeek \/ Capture \/ FlushDone \/ LoopEnd \/ FinalFlushDone)
  /\ WF_vars(LoadFails("LoadTimeout"))
  /\ WF_vars(SeekFails("SeekTimeout"))
  /\ WF_vars(ReloadFails("LoadTimeout"))
  /\ WF_vars(SeekOk /\ ~Corrupt(i))
  /\ WF_vars(WorkerEncode)

SpecLive == InitLive /\ [][Next]_vars /\ LiveFair


(***************************************************************************)
(* The program with a caller that asks to abort the extraction while the   *)
(* loop is in the corrupt region of the source.  NativeVideoFrameExtractor *)
(* has no abort method and no statement that reads an abort signal: the    *)
(* request changes nothing but the record that it was made.                *)
(***************************************************************************)
RaiseAbort ==
  /\ abortAt = -1
  /\ pc \in {"loop", "seeking", "reloading", "seeked", "flushing"}
  /\ i < totalFrames
  /\ Corrupt(i)
  /\ abortAt' = i
  /\ UNCHANGED <<pc, duration, frameInterval, corruptFrom, two, util, calls, res, cnt, i,
                 skr, buf, msg, out, frameError, seekLog, failedIdx, cbs>>
  /\ UNCHANGED <<setupCalls, sig>>

NextAbort == Next \/ RaiseAbort

SpecAbort == InitLive /\ [][NextAbort]_vars

(***************************************************************************)
(* The program with late decoder signals.  When the last attempt for a     *)
(* timestamp times out, the element stays in this.video with its seek      *)
(* still running; the next timestamp's first seekToTime installs its       *)
(* handlers on that same element, and a seeked event the element had       *)
(* queued for the earlier request is then delivered to the new handler.    *)
(***************************************************************************)
\* video.onseeked fires for an earlier request: onSeeked of the current
\* attempt clears its timer and resolves
StaleSeeked ==
  /\ pc = "seeking"
  /\ pendingSeek >= 0
  /\ pendingSeek # i
  /\ pc' = "seeked"
  /\ seekedFor' = pendingSeek
  /\ pendingSeek' = -1
  /\ UNCHANGED <<env, res, cnt, i, skr, buf, msg, out, frameError, seekLog,
                 failedIdx, cbs, setupCalls>>

NextStale == Next \/ StaleSeeked

SpecStale == InitLive /\ [][NextStale]_vars

(***************************************************************************)
(* The utility functions batchFrames and sampleFrames, each run as its     *)
(* loop runs, on every frame list of up to MaxUtilFrames frames and every  *)
(* second argument in -ArgBelow .. MaxArg.  A frame is its position in the *)
(* input and its timestamp.                                                *)
(***************************************************************************)
UtilFrames ==
  {[j \in 1..Len(ts) |-> [id |-> j, timestamp |-> ts[j]]] :
     ts \in SeqsUpTo(0..MaxStamp, MaxUtilFrames)}

UtilCalls ==
  {[fn |-> f, frames |-> fs, arg |-> a, pc |-> "call", k |-> 0, acc |-> <<>>,
    last |-> 0] :
     f \in {"batchFrames", "sampleFrames"}, fs \in UtilFrames,
     a \in (0 - ArgBelow)..MaxArg}

InitUtil ==
  /\ pc = "utility"
  /\ duration = 0
  /\ frameInterval = 1
  /\ corruptFrom = 0
  /\ video = "null" /\ canvas = FALSE /\ worker = "null"
  /\ totalFrames = 0 /\ i = 0 /\ framesExtracted = 0 /\ consecutiveFailures = 0
  /\ attempt = 0 /\ reinits = 0 /\ seekCalls = 0 /\ seekError = "none"
  /\ frames = <<>> /\ bitmapBatch = <<>>
  /\ inbox = <<>> /\ reply = <<>>
  /\ result = <<>> /\ error = NoError /\ frameError = NoError
  /\ currentTime10 = 0
  /\ seekLog = <<>> /\ failedIdx = {}
  /\ onFrameLog = <<>> /\ progressLog = <<>> /\ flushLog = <<>>
  /\ videoFailed = FALSE
  /\ cleanups = 0 /\ terminateCalls = 0 /\ revokeCalls = 0
  /\ offscreenCanvases = 0 /\ closedLog = <<>> /\ workerError = FALSE
  /\ workerTrace = <<>>
  /\ setupCalls = 0
  /\ held = 0 /\ heldPeak = 0
  /\ pendingSeek = -1 /\ seekedFor = -1
  /\ captureTrace = <<>>
  /\ two = TwoIdle
  /\ util \in UtilCalls
  /\ abortAt = -1
  /\ calls = 0

\* Array.prototype.slice(a, b): a negative index counts from the end, both
\* are clamped to 0 .. length
SliceIndex(x, len) ==
  IF x < 0 THEN (IF len + x < 0 THEN 0 ELSE len + x)
  ELSE IF x > len THEN len ELSE x

Slice(q, a, b) ==
  LET from == SliceIndex(a, Len(q))
      to == SliceIndex(b, Len(q))
  IN IF from < to THEN SubSeq(q, from + 1, to) ELSE <<>>

\* i += batchSize
BatchIncrement(k, batchSize) == k + batchSize

\* frame.timestamp - lastTimestamp >= interval
SamplePick(diff, interval) == diff >= interval

\* the statements before the loop: batches = [] and i = 0, or the empty
\* check of sampleFrames, sampled = [frames[0]] and lastTimestamp
UtilCall ==
  /\ util.pc = "call"
  /\ util' =
       IF util.fn = "batchFrames"
         THEN [util EXCEPT !.pc = "loop", !.k = 0, !.acc = <<>>]
       ELSE IF util.frames = <<>>
         THEN [util EXCEPT !.pc = "returned", !.acc = <<>>]
       ELSE [util EXCEPT !.pc = "loop", !.k = 1, !.acc = <<util.frames[1]>>,
                         !.last = util.frames[1].timestamp]
  /\ UNCHANGED <<pc, duration, frameInterval, corruptFrom, two, abortAt, calls, res,
                 cnt, i, skr, buf, msg, out, frameError, seekLog, failedIdx, cbs,
                 setupCalls, sig>>

\* one iteration of batchFrames' for loop:
\* batches.push(frames.slice(i, i + batchSize)); i += batchSize
BatchFramesStep ==
  /\ util.fn = "batchFrames" /\ util.pc = "loop"
  /\ util.k < Len(util.frames)
  /\ Len(util.acc) < MaxUtilFrames + MaxExtraSteps
  /\ util' = [util EXCEPT
                !.acc = Append(util.acc,
                               Slice(util.frames, util.k, util.k + util.arg)),
                !.k = BatchIncrement(util.k, util.arg)]
  /\ UNCHANGED <<pc, duration, frameInterval, corruptFrom, two, abortAt, calls, res,
                 cnt, i, skr, buf, msg, out, frameError, seekLog, failedIdx, cbs,
                 setupCalls, sig>>

\* one iteration of sampleFrames' for...of loop, on the k-th frame
SampleFramesStep ==
  /\ util.fn = "sampleFrames" /\ util.pc = "loop"
  /\ util.k <= Len(util.frames)
  /\ LET frame == util.frames[util.k]
     IN util' =
          IF SamplePick(frame.timestamp - util.last, util.arg)
            THEN [util EXCEPT !.acc = Append(util.acc, frame),
                              !.last = frame.timestamp, !.k = util.k + 1]
            ELSE [util EXCEPT !.k = util.k + 1]
  /\ UNCHANGED <<pc, duration, frameInterval, corruptFrom, two, abortAt, calls, res,
                 cnt, i, skr, buf, msg, out, frameError, seekLog, failedIdx, cbs,
                 setupCalls, sig>>

\* the loop condition is false: return batches, return sampled
UtilReturn ==
  /\ util.pc = "loop"
  /\ IF util.fn = "batchFrames"
       THEN ~(util.k < Len(util.frames))
       ELSE util.k > Len(util.frames)
  /\ util' = [util EXCEPT !.pc = "returned"]
  /\ UNCHANGED <<pc, duration, frameInterval, corruptFrom, two, abortAt, calls, res,
                 cnt, i, skr, buf, msg, out, frameError, seekLog, failedIdx, cbs,
                 setupCalls, sig>>

NextUtil == UtilCall \/ BatchFramesStep \/ SampleFramesStep \/ UtilReturn

SpecUtil == InitUtil /\ [][NextUtil]_vars

(***************************************************************************)
(* The program with a caller that calls extractFrames again on the same    *)
(* instance after the previous call has settled, up to MaxCalls calls.     *)
(* The logs of the model, and what it records of the worker, restart with  *)
(* each call.                                                              *)
(***************************************************************************)
ExtractAgain_KeepsPosition ==
  /\ pc \in {"resolved", "rejected"}
  /\ calls < MaxCalls
  /\ calls' = calls + 1
  /\ worker' = "alive"
  /\ video' = "created"
  /\ held' = held + 1
  /\ heldPeak' = Max2(heldPeak, held + 1)
  /\ pc' = "loading"
  /\ frames' = <<>> /\ bitmapBatch' = <<>>
  /\ totalFrames' = 0 /\ consecutiveFailures' = 0
  /\ result' = <<>> /\ error' = NoError /\ frameError' = NoError
  /\ seekLog' = <<>> /\ failedIdx' = {}
  /\ onFrameLog' = <<>> /\ progressLog' = <<>> /\ captureTrace' = <<>>
  /\ flushLog' = <<>>
  /\ UNCHANGED <<i, framesExtracted>>
  /\ attempt' = 0 /\ reinits' = 0 /\ seekCalls' = 0 /\ seekError' = "none"
  /\ currentTime10' = 0
  /\ offscreenCanvases' = 0 /\ closedLog' = <<>> /\ workerError' = FALSE
  /\ workerTrace' = <<>>
  /\ UNCHANGED <<duration, frameInterval, corruptFrom, two, util, abortAt, videoFailed,
                 canvas, cln, inbox, reply>>
  /\ pendingSeek' = -1 /\ seekedFor' = -1
  /\ UNCHANGED setupCalls

\* extractFrames called again: new frames and bitmapBatch arrays, a new
\* worker and video element, loadVideo pending; the loop variables are
\* locals of the call
ExtractAgain ==
  /\ pc \in {"resolved", "rejected"}
  /\ calls < MaxCalls
  /\ calls' = calls + 1
  /\ worker' = "alive"
  /\ video' = "created"
  /\ held' = held + 1
  /\ heldPeak' = Max2(heldPeak, held + 1)
  /\ pc' = "loading"
  /\ frames' = <<>> /\ bitmapBatch' = <<>>
  /\ totalFrames' = 0 /\ consecutiveFailures' = 0
  /\ result' = <<>> /\ error' = NoError /\ frameError' = NoError
  /\ seekLog' = <<>> /\ failedIdx' = {}
  /\ onFrameLog' = <<>> /\ progressLog' = <<>> /\ captureTrace' = <<>>
  /\ flushLog' = <<>>
  /\ i' = 0 /\ framesExtracted' = 0
  /\ attempt' = 0 /\ reinits' = 0 /\ seekCalls' = 0 /\ seekError' = "none"
  /\ currentTime10' = 0
  /\ offscreenCanvases' = 0 /\ closedLog' = <<>> /\ workerError' = FALSE
  /\ workerTrace' = <<>>
  /\ UNCHANGED <<duration, frameInterval, corruptFrom, two, util, abortAt, videoFailed,
                 canvas, cln, inbox, reply>>
  /\ pendingSeek' = -1 /\ seekedFor' = -1
  /\ UNCHANGED setupCalls

NextAgain == Next \/ ExtractAgain

SpecAgain == InitLive /\ [][NextAgain]_vars

(***************************************************************************)
(* Vocabulary of the properties.                                           *)
(***************************************************************************)
Timestamps(fs) == [k \in 1..Len(fs) |-> fs[k].timestamp]

\* the indices below n that did not end in the catch, in increasing order
KeptIdx(n) == SelectSeq([k \in 1..n |-> k - 1], LAMBDA x : x \notin failedIdx)

\* the timestamps i * frameInterval of those indices
KeptTimestamps(n) ==
  LET kept == KeptIdx(n) IN [k \in 1..Len(kept) |-> kept[k] * frameInterval]

\* the last n elements of s
LastN(s, n) == SubSeq(s, Len(s) - n + 1, Len(s))

StrictlyIncreasing(s) == \A k \in 1..(Len(s) - 1) : s[k] < s[k + 1]

\* three consecutive iterations failed
HasRunOfThree == \E k \in failedIdx : k + 1 \in failedIdx /\ k + 2 \in failedIdx

SeekWithRetryErrors == {"SeekFailure", "LoadError", "LoadTimeout"}
SetupErrors == {"LoadError", "LoadTimeout", "CanvasUnavailable"}

(***************************************************************************)
(* C1 (as amended).  seekWithRetry never issues more than                  *)
(* MAX_SEEK_RETRIES seek attempts for a timestamp; it fails with a         *)
(* SeekFailure only after exactly MAX_SEEK_RETRIES attempts, and that      *)
(* error carries the timestamp and the last underlying seek error; when    *)
(* the reload of a reinitialization fails it stops earlier, after fewer    *)
(* than MAX_SEEK_RETRIES attempts, with the load error.                    *)
(***************************************************************************)
C1_SeekRetryBound ==
  /\ seekCalls <= MAX_SEEK_RETRIES
  /\ attempt <= MAX_SEEK_RETRIES
  /\ reinits <= MAX_SEEK_RETRIES - 1
  /\ frameError.kind = "SeekFailure" =>
       /\ seekCalls = MAX_SEEK_RETRIES
       /\ frameError.timestamp = seekLog[Len(seekLog)]
       /\ frameError.cause = seekError
       /\ seekError \in {"MediaError", "SeekTimeout"}
  /\ frameError.kind \in {"LoadError", "LoadTimeout"} =>
       /\ seekCalls < MAX_SEEK_RETRIES
       /\ seekCalls = reinits

C1_Witness ==
  /\ frameError.kind = "SeekFailure"
  /\ seekCalls = MAX_SEEK_RETRIES
  /\ reinits = MAX_SEEK_RETRIES - 1

\* C1 as stated: whenever seekWithRetry fails, it has issued exactly
\* MAX_SEEK_RETRIES attempts and fails with a SeekFailure
C1_Original ==
  frameError.kind \in SeekWithRetryErrors =>
    /\ seekCalls = MAX_SEEK_RETRIES
    /\ frameError.kind = "SeekFailure"

(***************************************************************************)
(* C2.  When three consecutive target timestamps have failed, the call     *)
(* rejects with the consecutive-failure error and returns nothing; the     *)
(* third failing timestamp is the last one ever sought, the frames and     *)
(* progress events reported are exactly those of the successful            *)
(* iterations before the first of the three, and none has a timestamp at   *)
(* or after it.                                                            *)
(***************************************************************************)
C2_AbortAfterThreeFailures ==
  /\ consecutiveFailures >= MAX_CONSECUTIVE_FAILURES =>
       pc = "rejected" /\ error.kind = "ConsecutiveFailures"
  /\ HasRunOfThree => pc = "rejected" /\ error.kind = "ConsecutiveFailures"
  /\ error.kind = "ConsecutiveFailures" =>
       /\ pc = "rejected"
       /\ result = <<>>
       /\ {i - 2, i - 1, i} \subseteq failedIdx
       /\ Len(seekLog) = i + 1
       /\ seekLog[Len(seekLog)] = i * frameInterval
       /\ Timestamps(onFrameLog) = KeptTimestamps(i - 2)
       /\ Len(progressLog) = Len(onFrameLog)
       /\ \A k \in 1..Len(onFrameLog) :
            onFrameLog[k].timestamp < (i - 2) * frameInterval
       /\ \A k \in 1..Len(frames) : frames[k].timestamp < (i - 2) * frameInterval
       /\ inbox = <<>>

C2_Witness ==
  /\ error.kind = "ConsecutiveFailures"
  /\ pc = "rejected"
  /\ Len(onFrameLog) >= 2
  /\ Cardinality(failedIdx) = MAX_CONSECUTIVE_FAILURES

C7_TargetTimestamps ==
  /\ seekLog = [k \in 1..Len(seekLog) |-> (k - 1) * frameInterval]
  /\ Len(seekLog) <= duration \div frameInterval
  /\ \A k \in 1..Len(seekLog) : seekLog[k] < duration
  /\ StrictlyIncreasing(seekLog)
  /\ seekLog # <<>> => currentTime10 = 10 * seekLog[Len(seekLog)]
  /\ pc \in {"seeking", "reloading", "seeked"} => Len(seekLog) = i + 1
  /\ pc = "resolved" => Len(seekLog) = duration \div frameInterval

C7_Witness ==
  /\ pc = "resolved"
  /\ Len(seekLog) = MaxDuration
  /\ failedIdx # {}

C9_StartingIndex ==
  \A k \in 1..Len(flushLog) : flushLog[k].startingIndex = flushLog[k].bitmaps[1]

(***************************************************************************)
(* C10.  Once its batch has been encoded a frame carries its compressed    *)
(* blob: every frame returned by a resolved call has its blob set.         *)
(***************************************************************************)
C10_BlobsAssociated ==
  pc = "resolved" => \A k \in 1..Len(result[1]) : result[1][k].blob # <<>>


(***************************************************************************)
(* C11.  At most one flush is in flight: between sending a batch to the    *)
(* worker and receiving its reply the extractor is suspended in            *)
(* encodeBatch and performs no seek, no capture and no further send, and   *)
(* the reply it receives answers the one outstanding request.              *)
(***************************************************************************)
InFlight == inbox # <<>> \/ reply # <<>>

Awaiting == pc \in {"flushing", "finalFlushing"}

C11_OneFlushInFlight ==
  /\ [](/\ Len(inbox) + Len(reply) <= 1
        /\ InFlight <=> Awaiting
        /\ InFlight =>
             LET m == flushLog[Len(flushLog)]
             IN /\ flushLog # <<>>
                /\ inbox # <<>> => inbox[1] = m
                /\ reply # <<>> =>
                     /\ Len(reply[1]) = Len(m.bitmaps)
                     /\ \A k \in 1..Len(m.bitmaps) : reply[1][k].src = m.bitmaps[k]
                /\ bitmapBatch = m.bitmaps)
  /\ [][InFlight =>
          /\ seekLog' = seekLog
          /\ onFrameLog' = onFrameLog
          /\ framesExtracted' = framesExtracted
          /\ flushLog' = flushLog]_vars

C11_Witness ==
  /\ pc = "flushing"
  /\ reply # <<>>
  /\ Len(flushLog) = 2
  /\ Len(seekLog) > 2 * FLUSH_INTERVAL

(***************************************************************************)
(* C12 (as amended).  Inside one seekWithRetry call every failed attempt   *)
(* but the last is followed by a full reinitialization (the element is     *)
(* released, a new one created and the source reloaded) before the next    *)
(* attempt, so every retry is issued on a loaded element on which no seek  *)
(* has failed; a seek issued on an element on which a seek failed is       *)
(* always the first attempt for a timestamp.                               *)
(***************************************************************************)
C12_RetryOnFreshSession ==
  /\ pc = "reloading" => video = "created" /\ ~videoFailed /\ reinits = attempt
  /\ pc = "seeking" /\ attempt > 1 =>
       video = "loaded" /\ ~videoFailed /\ reinits = attempt - 1
  /\ pc = "seeking" /\ videoFailed => attempt = 1 /\ failedIdx # {}

C12_Witness ==
  /\ pc = "seeking"
  /\ attempt = MAX_SEEK_RETRIES
  /\ reinits = MAX_SEEK_RETRIES - 1
  /\ ~videoFailed

\* C12 as stated: no seek is pending on an element on which a previous seek
\* attempt failed
C12_Original == pc = "seeking" => ~videoFailed

(***************************************************************************)
(* C13 (as amended).  When the seek for a timestamp fails on its first     *)
(* k - 1 attempts and succeeds on attempt k (1 <= k <= MAX_SEEK_RETRIES),  *)
(* exactly k - 1 reinitializations and k seek calls have been made; if the *)
(* decoded picture has non-zero dimensions the frame is captured and       *)
(* handed to onFrame, and it is in the returned list unless a periodic     *)
(* flush emptied the list after its capture.                               *)
(***************************************************************************)
\* the iteration that sought last ran to its end without reaching the catch
LastFrameDone ==
  /\ seekLog # <<>>
  /\ frameError = NoError
  /\ pc \in {"loop", "flushing", "finalFlushing", "resolved"}

C13_SucceedsOnAttemptK ==
  /\ pc = "seeked" =>
       /\ attempt \in 1..MAX_SEEK_RETRIES
       /\ reinits = attempt - 1
       /\ seekCalls = attempt
  /\ LastFrameDone =>
       /\ attempt \in 1..MAX_SEEK_RETRIES
       /\ reinits = attempt - 1
       /\ seekCalls = attempt
       /\ onFrameLog # <<>>
       /\ onFrameLog[Len(onFrameLog)].timestamp = seekLog[Len(seekLog)]
       /\ (pc = "resolved" /\ ~ShouldFlush(framesExtracted)) =>
            /\ result[1] # <<>>
            /\ result[1][Len(result[1])].timestamp = seekLog[Len(seekLog)]
  /\ pc = "resolved" /\ framesExtracted < FLUSH_INTERVAL =>
       Timestamps(result[1]) = KeptTimestamps(totalFrames)

C13_Witness ==
  /\ pc = "resolved"
  /\ LastFrameDone
  /\ attempt = MAX_SEEK_RETRIES
  /\ reinits = MAX_SEEK_RETRIES - 1
  /\ result[1] # <<>>
  /\ result[1][Len(result[1])].timestamp = seekLog[Len(seekLog)]

\* C13 as stated: a timestamp whose seek succeeded has its frame captured
\* and in the output
C13_Original ==
  /\ frameError.kind # "NoDimensions"
  /\ pc = "resolved" =>
       \A k \in 0..(totalFrames - 1) :
         k \notin failedIdx =>
           \E j \in 1..Len(result[1]) : result[1][j].timestamp = k * frameInterval

(***************************************************************************)
(* C14.  Every seek attempt settles: a pending seekToTime always ends,     *)
(* by the decoder's signal or by its timer; a rejected attempt leads to    *)
(* the reinitialization for the next retry while attempts remain and to    *)
(* the SeekFailure carrying the last seek error after the last attempt.    *)
(***************************************************************************)
C14_SeekAttemptSettles ==
  /\ \A a \in 1..MAX_SEEK_RETRIES :
       (pc = "seeking" /\ attempt = a) ~> ~(pc = "seeking" /\ attempt = a)
  /\ [][(pc = "seeking" /\ pc' \notin {"seeking", "seeked"}) =>
          IF attempt < MAX_SEEK_RETRIES
            THEN pc' = "reloading" /\ reinits' = reinits + 1 /\ attempt' = attempt
            ELSE /\ frameError'.kind = "SeekFailure"
                 /\ frameError'.cause = seekError'
                 /\ pc' \in {"loop", "rejected"}]_vars

C14_Witness ==
  /\ pc = "seeking"
  /\ attempt = 2
  /\ seekError = "SeekTimeout"

(***************************************************************************)
(* C15.  On every exit path of extractFrames (normal completion, setup     *)
(* failure, abort after consecutive failures) cleanup has run by the time  *)
(* the promise settles: the video element is released and dropped, the     *)
(* worker terminated and dropped, the canvas and its context dropped; and  *)
(* cleanup does not run before the call leaves.                            *)
(***************************************************************************)
Settled == pc \in {"resolved", "rejected"}

C15_CleanupOnExit ==
  /\ Settled =>
       /\ cleanups >= 1
       /\ video = "null"
       /\ worker = "terminated"
       /\ canvas = FALSE
       /\ terminateCalls = 1
       /\ revokeCalls = 1
  /\ ~Settled => cleanups = 0 /\ terminateCalls = 0 /\ revokeCalls = 0
  /\ pc \notin {"idle", "resolved", "rejected"} => worker = "alive" /\ video # "null"

C15_Witness ==
  /\ pc = "rejected"
  /\ error.kind = "ConsecutiveFailures"
  /\ framesExtracted > 0
  /\ cleanups = 1
  /\ video = "null" /\ worker = "terminated" /\ canvas = FALSE

(***************************************************************************)
(* C16.  cleanup is idempotent: invoked on an extractor that has already   *)
(* been cleaned up it terminates no worker and releases no session a       *)
(* second time, and it leaves the extractor's state as it was.             *)
(***************************************************************************)
C16_CleanupIdempotent ==
  /\ [](/\ terminateCalls <= 1
        /\ revokeCalls <= 1
        /\ cleanups >= 1 =>
             /\ video = "null" /\ worker = "terminated" /\ canvas = FALSE
             /\ terminateCalls = 1 /\ revokeCalls = 1)
  /\ [][(cleanups >= 1 /\ cleanups' = cleanups + 1) =>
          UNCHANGED <<pc, video, videoFailed, canvas, worker, terminateCalls,
                      revokeCalls, result, error, frames, bitmapBatch>>]_vars

C16_Witness ==
  /\ cleanups = MaxCleanups
  /\ pc = "resolved"
  /\ terminateCalls = 1
  /\ revokeCalls = 1

(***************************************************************************)
(* C17.  A setup failure (load error, load timeout, no canvas context)     *)
(* rejects extractFrames before any frame work: no seek has been issued,   *)
(* no callback has fired and no batch has been sent; frame work is only    *)
(* done with a loaded source and a canvas.                                 *)
(***************************************************************************)
NoFrameWork ==
  /\ seekLog = <<>>
  /\ onFrameLog = <<>>
  /\ progressLog = <<>>
  /\ flushLog = <<>>
  /\ framesExtracted = 0

C17_SetupFailureRejects ==
  /\ error.kind \in SetupErrors => pc = "rejected" /\ result = <<>> /\ NoFrameWork
  /\ pc \in {"idle", "loading"} => NoFrameWork
  /\ ~NoFrameWork => error.kind \notin SetupErrors
  /\ pc \in {"loop", "seeking", "reloading", "seeked", "flushing", "finalFlushing"} =>
       canvas /\ worker = "alive" /\ video # "null"

C17_Witness ==
  /\ pc = "rejected"
  /\ error.kind = "CanvasUnavailable"
  /\ NoFrameWork
  /\ cleanups = 1

(***************************************************************************)
(* C18.  When the worker fails while encoding a batch the failure is       *)
(* surfaced and fatal: extractFrames rejects; it does not hang and it does *)
(* not go on with the batch treated as skipped.                            *)
(***************************************************************************)
C18_WorkerFailureFatal ==
  workerError =>
    /\ pc # "resolved"
    /\ pc = "rejected" \/ ENABLED Next

(***************************************************************************)
(* C19.  For a batch of N pictures with startingIndex K the worker replies *)
(* exactly once, with exactly N blobs in input order: the blob at 0-based  *)
(* position j is the compression of the picture at position j, labelled    *)
(* K + j.                                                                  *)
(***************************************************************************)
C19_WorkerReply ==
  LET m == flushLog[1]
      N == Len(m.bitmaps)
      K == m.startingIndex
  IN /\ Len(inbox) + Len(reply) = 1
     /\ reply # <<>> =>
          /\ inbox = <<>>
          /\ Len(reply[1]) = N
          /\ \A j \in 0..(N - 1) :
               /\ reply[1][j + 1].src = m.bitmaps[j + 1]
               /\ reply[1][j + 1].label = K + j

C19_Witness ==
  /\ reply # <<>>
  /\ Len(reply[1]) = MaxBatch
  /\ flushLog[1].startingIndex = MinStart
  /\ reply[1][1].label = MinStart
  /\ reply[1][MaxBatch].src # reply[1][1].src

(***************************************************************************)
(* C20.  Given an empty batch the worker replies with an empty result and  *)
(* no error; it constructs no OffscreenCanvas and closes no picture.       *)
(***************************************************************************)
C20_EmptyBatch ==
  (flushLog[1].bitmaps = <<>> /\ inbox = <<>>) =>
    /\ reply = << <<>> >>
    /\ ~workerError
    /\ offscreenCanvases = 0
    /\ closedLog = <<>>

C20_Witness ==
  /\ flushLog[1].bitmaps = <<>>
  /\ inbox = <<>>
  /\ reply = << <<>> >>
  /\ offscreenCanvases = 0

(***************************************************************************)
(* C21.  After every captured frame exactly one progress event is emitted: *)
(* its framesExtracted is the number of frames captured so far (one more   *)
(* than in the event before), its currentTime is the frame's timestamp,    *)
(* its totalDuration the source duration, its progress lies in 0..100 and  *)
(* never decreases; a skipped frame emits no progress event.               *)
(***************************************************************************)
ProgressLogOk ==
  LET n == Len(progressLog)
  IN /\ n = framesExtracted
     /\ n = Len(onFrameLog)
     /\ n > 0 =>
          LET e == progressLog[n]
          IN /\ e.framesExtracted = n
             /\ e.currentTime = onFrameLog[n].timestamp
             /\ e.currentTime \notin {k * frameInterval : k \in failedIdx}
             /\ e.totalDuration = duration
             /\ e.den = totalFrames /\ e.den > 0
             /\ 0 <= e.num /\ e.num <= 100 * e.den
     /\ n > 1 =>
          /\ progressLog[n].framesExtracted = progressLog[n - 1].framesExtracted + 1
          /\ progressLog[n - 1].num <= progressLog[n].num
          /\ progressLog[n - 1].den = progressLog[n].den

Positions(t, x) == {k \in 1..Len(t) : t[k] = x}

OnFrameLogOk ==
  LET n == Len(onFrameLog)
  IN /\ n = framesExtracted
     /\ n > 0 =>
          /\ onFrameLog[n].data = "preview"
          /\ onFrameLog[n].blob = <<>>
          /\ onFrameLog[n].timestamp \notin {k * frameInterval : k \in failedIdx}
          /\ \E k \in 0..(totalFrames - 1) : onFrameLog[n].timestamp = k * frameInterval
          /\ Cardinality(Positions(captureTrace, "onFrame")) = 1
          /\ \A f \in Positions(captureTrace, "onFrame") :
               /\ \A q \in Positions(captureTrace, "push") : q < f
               /\ \A q \in Positions(captureTrace, "onProgress") : f < q
               /\ \A q \in Positions(captureTrace, "postMessage") : f < q
     /\ n > 1 => onFrameLog[n - 1].timestamp < onFrameLog[n].timestamp
     /\ flushLog # <<>> =>
          LET m == flushLog[Len(flushLog)]
          IN /\ n >= Len(m.bitmaps)
             /\ m.bitmaps[Len(m.bitmaps)] * frameInterval <= onFrameLog[n].timestamp

C22_OnFrameCalls ==
  /\ []OnFrameLogOk
  /\ [][\/ /\ Len(onFrameLog') = Len(onFrameLog) + 1
           /\ framesExtracted' = framesExtracted + 1
           /\ Len(bitmapBatch') = Len(bitmapBatch) + 1
           /\ SubSeq(onFrameLog', 1, Len(onFrameLog)) = onFrameLog
        \/ /\ onFrameLog' = onFrameLog
           /\ framesExtracted' = framesExtracted]_vars

C22_Witness ==
  /\ pc = "flushing"
  /\ Len(onFrameLog) = 2 * FLUSH_INTERVAL
  /\ failedIdx # {}
  /\ Positions(captureTrace, "postMessage") # {}
  /\ onFrameLog[Len(onFrameLog)].blob = <<>>

(***************************************************************************)
(* C23.  The pipeline does not depend on what the callbacks do: a frame    *)
(* that was captured and handed to onFrame is not counted as a failed      *)
(* iteration, consecutiveFailures counts decoder failures only, and the    *)
(* batch is flushed at the same points (it never outgrows FLUSH_INTERVAL)  *)
(* whether or not a callback throws.                                       *)
(***************************************************************************)
C23_CallbackIndependence ==
  /\ onFrameLog # <<>> =>
       \A k \in failedIdx : k * frameInterval # onFrameLog[Len(onFrameLog)].timestamp
  /\ consecutiveFailures > 0 => (i - 1) \in failedIdx \/ i \in failedIdx
  /\ frameError.kind # "CallbackError"
  /\ Len(bitmapBatch) <= FLUSH_INTERVAL

(***************************************************************************)
(* C24.  A decode session and the worker are never shared by overlapping   *)
(* extractFrames calls: while a call is running, this.video and            *)
(* this.worker hold the resources that call created, and every seek of a   *)
(* call is issued on an element the call created.                          *)
(***************************************************************************)
TwoActive(r) == two.pc[r] \in {"loading", "loop", "seeking"}

C24_SessionsNotShared ==
  \A r \in 1..2 :
    /\ two.pc[r] = "seeking" => two.seekOn[r] = r
    /\ TwoActive(r) => two.video = r /\ two.worker = r

(***************************************************************************)
(* C25.  An abort raised during iteration a is observed at the next        *)
(* iteration boundary: no iteration after a is started, no onFrame or      *)
(* onProgress call is made for a later iteration, the pictures captured    *)
(* but not yet encoded are not sent to the worker, and the call goes to    *)
(* cleanup.                                                                *)
(***************************************************************************)
C25_AbortObserved ==
  abortAt >= 0 =>
    /\ i <= abortAt + 1
    /\ onFrameLog # <<>> => onFrameLog[Len(onFrameLog)].timestamp <= Timestamp(abortAt)
    /\ progressLog # <<>> =>
         progressLog[Len(progressLog)].currentTime <= Timestamp(abortAt)
    /\ pc # "finalFlushing"

(***************************************************************************)
(* C26 (as amended).  The extractor keeps no record of having been used:   *)
(* an extractFrames call made on the same instance after the previous call *)
(* has settled runs a complete extraction of its own, with a new worker    *)
(* and video element, and ends with its own cleanup.                       *)
(***************************************************************************)
C26_SecondCallRuns ==
  /\ calls <= MaxCalls
  /\ pc \notin {"idle", "resolved", "rejected"} => worker = "alive" /\ video # "null"
  /\ pc \in {"resolved", "rejected"} =>
       /\ cleanups = calls
       /\ terminateCalls = calls
       /\ revokeCalls = calls
       /\ video = "null" /\ worker = "terminated"
  /\ (pc = "resolved" /\ framesExtracted < FLUSH_INTERVAL) =>
       Timestamps(result[1]) = KeptTimestamps(totalFrames)
  /\ pc = "resolved" => Len(seekLog) = totalFrames

C26_Witness ==
  /\ calls = MaxCalls
  /\ pc = "resolved"
  /\ Len(result[1]) > 1
  /\ Len(seekLog) = totalFrames
  /\ cleanups = MaxCalls

\* C26 as stated: a later call on the same instance does no frame work
C26_Original ==
  calls > 1 => seekLog = <<>> /\ onFrameLog = <<>> /\ flushLog = <<>>

(***************************************************************************)
(* C27.  Every extractFrames call settles, whatever the decoder and the    *)
(* worker do: a call that has not settled can always take another step     *)
(* (a timer, an event, a continuation) towards resolving or rejecting.     *)
(***************************************************************************)
C27_CallSettles ==
  pc \in {"resolved", "rejected"} \/ ENABLED Next

(***************************************************************************)
(* With a worker that answers every batch the call does settle: under the  *)
(* scheduling of SpecLive every call ends resolved or rejected.            *)
(***************************************************************************)
SettlesWithLiveWorker == <>(pc \in {"resolved", "rejected"})

(***************************************************************************)
(* C28. The encoder worker releases each picture of a non-empty batch      *)
(* exactly once: the close of the picture at position k comes after the    *)
(* convertToBlob of position k and before the drawImage of position k + 1; *)
(* the reply is the last step, so every picture of the batch has been      *)
(* closed when the worker replies, and the pictures closed are exactly     *)
(* those of the batch, in order.                                           *)
(***************************************************************************)
StepAt(steps, op, k) == {e \in 1..Len(steps) : steps[e] = [op |-> op, at |-> k]}

ReleasedOnce(steps, n) ==
  /\ steps # <<>>
  /\ StepAt(steps, "postMessage", n) = {Len(steps)}
  /\ \A k \in 0..(n - 1) :
       /\ Cardinality(StepAt(steps, "close", k)) = 1
       /\ Cardinality(StepAt(steps, "convertToBlob", k)) = 1
       /\ \A c \in StepAt(steps, "close", k) :
            /\ \A b \in StepAt(steps, "convertToBlob", k) : b < c
            /\ \A d \in StepAt(steps, "drawImage", k + 1) : c < d
            /\ \A d \in StepAt(steps, "convertToBlob", k + 1) : c < d
            /\ c < Len(steps)
  /\ \A e \in 1..Len(steps) : steps[e].op = "close" => steps[e].at \in 0..(n - 1)

C28_WorkerReleasesEachPicture ==
  [][(inbox # <<>> /\ Len(Head(inbox).bitmaps) > 0 /\ reply' # reply)
       => /\ ReleasedOnce(workerTrace', Len(Head(inbox).bitmaps))
          /\ closedLog' = closedLog \o Head(inbox).bitmaps]_vars

C28_Witness ==
  /\ reply # <<>>
  /\ Len(workerTrace) = 3 * MaxBatch + 1
  /\ Len(closedLog) >= MaxBatch

(***************************************************************************)
(* C29. Capture is a copy and the hand-off is exclusive.  While a call is  *)
(* in its frame loop the canvas is the one setupCanvas created for that    *)
(* call: no step of the loop, a session reinitialization included, creates *)
(* another.  A capture appends one picture showing the frame of the        *)
(* current index and leaves the pictures captured before as they were.     *)
(* While a batch is with the encoder the sampler does not touch it, and    *)
(* when the sampler runs again the batch holds no picture that was sent.   *)
(***************************************************************************)
PicturesOf(batch) == {batch[j] : j \in DOMAIN batch}

SentPictures == UNION {PicturesOf(flushLog[m].bitmaps) : m \in DOMAIN flushLog}

InFrameLoop ==
  pc \in {"loop", "seeking", "reloading", "seeked", "flushing", "finalFlushing"}

AwaitingEncode == pc \in {"flushing", "finalFlushing"}

SurfaceAndBatchOk ==
  /\ InFrameLoop => canvas /\ setupCalls = calls
  /\ \A j \in 2..Len(bitmapBatch) : bitmapBatch[j - 1] < bitmapBatch[j]
  /\ ~AwaitingEncode => PicturesOf(bitmapBatch) \cap SentPictures = {}

C29_CopyAndExclusiveHandOff ==
  /\ []SurfaceAndBatchOk
  /\ [][/\ (InFrameLoop /\ InFrameLoop')
             => setupCalls' = setupCalls /\ canvas' = canvas
        /\ Len(bitmapBatch') > Len(bitmapBatch)
             => bitmapBatch' = Append(bitmapBatch, i)
        /\ AwaitingEncode => bitmapBatch' \in {bitmapBatch, <<>>}
        /\ (pc = "seeking" /\ pc' = "reloading")
             => UNCHANGED <<canvas, setupCalls, bitmapBatch, frames>>]_vars

C29_Witness ==
  /\ pc = "seeked"
  /\ attempt > 1
  /\ flushLog # <<>>
  /\ bitmapBatch # <<>>
  /\ canvas /\ setupCalls = 1

(***************************************************************************)
(* C30. A seek that succeeds on a picture of zero width or height counts   *)
(* as a failed frame.  The step that finds it captures nothing: the batch, *)
(* the frames, the callbacks' logs and the messages to the worker are as   *)
(* before; consecutiveFailures goes up by one; and the loop moves to the   *)
(* next index, unless this is failure number MAX_CONSECUTIVE_FAILURES, in  *)
(* which case the call rejects.  No callback ever carries the timestamp of *)
(* the frame just skipped.                                                 *)
(***************************************************************************)
ZeroDimensionsFound ==
  /\ pc = "seeked"
  /\ \/ frameError'.kind = "NoDimensions"
     \/ framesExtracted' = framesExtracted

SkippedUnreported ==
  (pc = "loop" /\ frameError.kind = "NoDimensions")
    => /\ i >= 1
       /\ \A j \in DOMAIN onFrameLog : onFrameLog[j].timestamp # Timestamp(i - 1)
       /\ \A j \in DOMAIN progressLog :
            progressLog[j].currentTime # Timestamp(i - 1)

C30_ZeroDimensionsIsFailure ==
  /\ []SkippedUnreported
  /\ [][ZeroDimensionsFound
          => /\ frameError'.kind = "NoDimensions"
             /\ UNCHANGED <<bitmapBatch, frames, framesExtracted, onFrameLog,
                            progressLog, inbox, flushLog>>
             /\ consecutiveFailures' = consecutiveFailures + 1
             /\ IF consecutiveFailures + 1 >= MAX_CONSECUTIVE_FAILURES
                  THEN /\ pc' = "rejected"
                       /\ error'.kind = "ConsecutiveFailures"
                       /\ result' = <<>>
                  ELSE /\ pc' = "loop"
                       /\ i' = i + 1
                       /\ error' = error]_vars

C30_Witness ==
  /\ pc = "loop"
  /\ frameError.kind = "NoDimensions"
  /\ consecutiveFailures = 1
  /\ bitmapBatch # <<>>
  /\ onFrameLog # <<>>

C30_WitnessAbort ==
  /\ pc = "rejected"
  /\ frameError.kind = "NoDimensions"
  /\ error.kind = "ConsecutiveFailures"

(***************************************************************************)
(* C31. seekWithRetry changes only the decode session.  From its call to   *)
(* its return, through every attempt and every reinitialization, the batch *)
(* buffer, the list of frames, framesExtracted, consecutiveFailures, the   *)
(* canvas, the worker and the messages exchanged with it stay as they      *)
(* were.  When it throws, the frame loop's catch adds its one failure and  *)
(* the buffers and framesExtracted are still untouched.                    *)
(***************************************************************************)
InSeekWithRetry == pc \in {"seeking", "reloading"}

C31_SeekWithRetryFrame ==
  [][/\ ((InSeekWithRetry \/ pc = "loop") /\ pc' \in {"seeking", "reloading", "seeked"})
          => UNCHANGED <<bitmapBatch, frames, framesExtracted, consecutiveFailures,
                         canvas, setupCalls, worker, terminateCalls, inbox, reply,
                         flushLog, onFrameLog, progressLog, result, error>>
     /\ (InSeekWithRetry /\ pc' \in {"loop", "rejected"})
          => /\ UNCHANGED <<bitmapBatch, frames, framesExtracted, setupCalls,
                            inbox, reply, flushLog, onFrameLog, progressLog, result>>
             /\ consecutiveFailures' = consecutiveFailures + 1
             /\ pc' = "loop" => UNCHANGED <<canvas, worker, terminateCalls, error>>]_vars

C31_Witness ==
  /\ pc = "seeked"
  /\ attempt = MAX_SEEK_RETRIES
  /\ reinits = MAX_SEEK_RETRIES - 1
  /\ bitmapBatch # <<>>
  /\ consecutiveFailures > 0

(***************************************************************************)
(* C32. With a worker that answers every request, every batch sent is      *)
(* non-empty and the batches, concatenated in the order they were sent,    *)
(* are a prefix of the pictures captured so far in capture order: nothing  *)
(* is sent twice or out of order.  When the call resolves, the batches     *)
(* together are exactly the captured pictures.                             *)
(***************************************************************************)
RECURSIVE ConcatBatches(_)
ConcatBatches(log) ==
  IF log = <<>> THEN <<>> ELSE Head(log).bitmaps \o ConcatBatches(Tail(log))

\* the indices whose picture has been taken, in the order they were taken:
\* every index the loop has passed that did not end in the catch (during a
\* periodic flush the loop is still at the index it has just captured)
CapturedSoFar ==
  LET n == IF pc = "flushing" THEN i + 1 ELSE i
  IN SelectSeq([k \in 1..n |-> k - 1], LAMBDA k : k \notin failedIdx)

C32_BatchesArePrefixOfCaptures ==
  /\ \A m \in DOMAIN flushLog : flushLog[m].bitmaps # <<>>
  /\ LET sent == ConcatBatches(flushLog)
         captured == CapturedSoFar
     IN /\ Len(sent) <= Len(captured)
        /\ sent = SubSeq(captured, 1, Len(sent))
        /\ pc = "resolved" => sent = captured

C32_Witness ==
  /\ pc = "resolved"
  /\ Len(flushLog) >= 2
  /\ failedIdx # {}
  /\ Len(ConcatBatches(flushLog)) > FLUSH_INTERVAL

(***************************************************************************)
(* C33. Whatever frames were skipped, the labels the encoder renders       *)
(* (startingIndex + position in the batch), read over all batches in the   *)
(* order they were sent, are strictly increasing: no two images of a run   *)
(* carry the same label.                                                   *)
(***************************************************************************)
RECURSIVE LabelsOf(_)
LabelsOf(log) ==
  IF log = <<>> THEN <<>>
  ELSE [k \in 1..Len(Head(log).bitmaps) |-> EncodeAll(Head(log))[k].label]
         \o LabelsOf(Tail(log))

C33_LabelsStrictlyIncrease ==
  LET labels == LabelsOf(flushLog)
  IN \A k \in 2..Len(labels) : labels[k - 1] < labels[k]

C33_Witness ==
  /\ pc = "resolved"
  /\ Len(flushLog) >= 2
  /\ failedIdx # {}
  /\ \E k \in failedIdx : k < FLUSH_INTERVAL

(***************************************************************************)
(* C34. consecutiveFailures is the number of iterations that have failed   *)
(* since the last successful capture (0 after a success), it stays within  *)
(* 0 .. MAX_CONSECUTIVE_FAILURES, and the call rejects with the            *)
(* consecutive-failure error exactly when it reaches that limit.  A source *)
(* with fewer than MAX_CONSECUTIVE_FAILURES target timestamps therefore    *)
(* never rejects with that error: once setup is done it resolves, with an  *)
(* empty result when every frame failed.                                   *)
(***************************************************************************)
\* the last index whose iteration is over
LastDone ==
  IF i \in failedIdx THEN i ELSE IF pc = "flushing" THEN i ELSE i - 1

\* the length of the run of failed indices that ends at LastDone
FailedSinceSuccess ==
  Cardinality({n \in 1..(MAX_CONSECUTIVE_FAILURES + 1) :
                 /\ LastDone - n + 1 >= 0
                 /\ \A k \in (LastDone - n + 1)..LastDone : k \in failedIdx})

C34_CountsFailuresSinceSuccess ==
  /\ consecutiveFailures = FailedSinceSuccess
  /\ consecutiveFailures \in 0..MAX_CONSECUTIVE_FAILURES
  /\ (consecutiveFailures = MAX_CONSECUTIVE_FAILURES)
       <=> (pc = "rejected" /\ error.kind = "ConsecutiveFailures")
  /\ error.kind = "ConsecutiveFailures" => pc = "rejected"
  /\ TotalFrames(duration, frameInterval) < MAX_CONSECUTIVE_FAILURES =>
       /\ error.kind # "ConsecutiveFailures"
       /\ pc = "rejected" => error.kind \in SetupErrors
       /\ (pc = "resolved" /\ failedIdx = 0..(totalFrames - 1)) => result = << <<>> >>

C34_Witness ==
  /\ pc = "resolved"
  /\ totalFrames = MAX_CONSECUTIVE_FAILURES - 1
  /\ failedIdx = 0..(totalFrames - 1)
  /\ consecutiveFailures = totalFrames
  /\ result = << <<>> >>

C34_WitnessReset ==
  /\ pc = "loop"
  /\ consecutiveFailures = 0
  /\ i - 1 \notin failedIdx
  /\ {i - 3, i - 2} \subseteq failedIdx

(***************************************************************************)
(* C35. The decode session is a single owned slot.  At every point of a    *)
(* run at most one video element holds an unreleased source URL, and it is *)
(* the element in this.video: a reinitialization releases the old element  *)
(* before it creates the new one, so two never exist together and none is  *)
(* held outside the slot.  After the call has settled none is held.        *)
(***************************************************************************)
C35_SingleSession ==
  /\ held = IF video = "null" THEN 0 ELSE 1
  /\ heldPeak <= 1
  /\ pc \in {"resolved", "rejected"} => held = 0 /\ video = "null"

C35_Witness ==
  /\ pc = "rejected"
  /\ reinits = MAX_SEEK_RETRIES - 1
  /\ Cardinality(failedIdx) = MAX_CONSECUTIVE_FAILURES
  /\ held = 0 /\ heldPeak = 1

(***************************************************************************)
(* C36. A seek attempt is completed only by a signal of its own request:   *)
(* whenever seekWithRetry has returned for the timestamp of index i, the   *)
(* seeked signal that resolved it was caused by the seek to that           *)
(* timestamp, so the frame captured next is captured on the strength of    *)
(* its own seek.                                                           *)
(***************************************************************************)
C36_OwnSignalOnly ==
  pc = "seeked" => seekedFor = i

(***************************************************************************)
(* C37. When the reload inside a reinitialization fails (error or load     *)
(* timeout), seekWithRetry makes no further seek attempt for that          *)
(* timestamp and the failure is one failed frame: nothing is captured,     *)
(* consecutiveFailures goes up by one, and the loop moves to the next      *)
(* index unless this is the third consecutive failure, in which case the   *)
(* call rejects.                                                           *)
(***************************************************************************)
LoadErrors == {"LoadError", "LoadTimeout"}

ReloadFailed == pc = "reloading" /\ video' # "loaded"

AfterReloadFailure ==
  (frameError.kind \in LoadErrors /\ pc \in {"loop", "rejected"}) =>
    /\ seekCalls = reinits
    /\ seekCalls < MAX_SEEK_RETRIES
    /\ Len(seekLog) = Cardinality({k \in 0..totalFrames : k < i \/ k \in failedIdx})
    /\ \E k \in failedIdx : seekLog[Len(seekLog)] = Timestamp(k) /\ k + 1 >= i

C37_ReloadFailureIsOneFailedFrame ==
  /\ []AfterReloadFailure
  /\ [][ReloadFailed
          => /\ frameError'.kind \in LoadErrors
             /\ UNCHANGED <<seekCalls, attempt, reinits, seekLog, currentTime10,
                            framesExtracted, bitmapBatch, frames, onFrameLog,
                            progressLog, inbox, flushLog>>
             /\ failedIdx' = failedIdx \cup {i}
             /\ consecutiveFailures' = consecutiveFailures + 1
             /\ IF consecutiveFailures + 1 >= MAX_CONSECUTIVE_FAILURES
                  THEN /\ pc' = "rejected"
                       /\ error'.kind = "ConsecutiveFailures"
                       /\ i' = i
                  ELSE /\ pc' = "loop"
                       /\ i' = i + 1
                       /\ error' = error]_vars

C37_Witness ==
  /\ pc = "loop"
  /\ frameError.kind \in LoadErrors
  /\ consecutiveFailures = 1
  /\ reinits = 1 /\ seekCalls = 1
  /\ bitmapBatch # <<>>

C37_WitnessAbort ==
  /\ pc = "rejected"
  /\ frameError.kind \in LoadErrors
  /\ error.kind = "ConsecutiveFailures"
  /\ reinits = MAX_SEEK_RETRIES - 1

(***************************************************************************)
(* C38. batchFrames terminates for every frame list and every integer      *)
(* batchSize: each iteration of its loop brings i closer to frames.length. *)
(* For batchSize >= 1 the batches returned, concatenated in order, are the *)
(* input list; every batch is non-empty and has at most batchSize frames,  *)
(* and every batch but the last has exactly batchSize frames.              *)
(***************************************************************************)
RECURSIVE ConcatAll(_)
ConcatAll(qs) == IF qs = <<>> THEN <<>> ELSE Head(qs) \o ConcatAll(Tail(qs))

BatchFramesPartitions ==
  (util.fn = "batchFrames" /\ util.pc = "returned" /\ util.arg >= 1) =>
    /\ ConcatAll(util.acc) = util.frames
    /\ \A b \in DOMAIN util.acc :
         /\ util.acc[b] # <<>>
         /\ Len(util.acc[b]) <= util.arg
         /\ b < Len(util.acc) => Len(util.acc[b]) = util.arg

C38_BatchFramesTerminates ==
  /\ []BatchFramesPartitions
  /\ [][(util.fn = "batchFrames" /\ util.pc = "loop" /\ util'.pc = "loop")
          => Len(util.frames) - util'.k < Len(util.frames) - util.k]_vars

\* the part of C38 about batchSize >= 1, on its own
C38_PositiveBatchSize ==
  /\ []BatchFramesPartitions
  /\ [][(util.fn = "batchFrames" /\ util.pc = "loop" /\ util'.pc = "loop"
           /\ util.arg >= 1)
          => Len(util.frames) - util'.k < Len(util.frames) - util.k]_vars

(***************************************************************************)
(* C39. For a non-empty frame list with non-decreasing timestamps and an   *)
(* interval >= 0, sampleFrames returns a subsequence of its input (frames  *)
(* in their original order, each at most once) that starts with the first  *)
(* frame and in which each later frame's timestamp is at least interval    *)
(* more than that of the frame selected before it; for an empty list it    *)
(* returns an empty list.                                                  *)
(***************************************************************************)
NonDecreasing(fs) == \A j \in 2..Len(fs) : fs[j - 1].timestamp <= fs[j].timestamp

SampledOk(interval) ==
  IF util.frames = <<>> THEN util.acc = <<>>
  ELSE /\ util.acc # <<>>
       /\ util.acc[1] = util.frames[1]
       /\ \A j \in DOMAIN util.acc : util.acc[j] = util.frames[util.acc[j].id]
       /\ \A j \in 2..Len(util.acc) :
            /\ util.acc[j - 1].id < util.acc[j].id
            /\ util.acc[j].timestamp - util.acc[j - 1].timestamp >= interval

C39_SampleIsSubsequence ==
  (/\ util.fn = "sampleFrames" /\ util.pc = "returned"
   /\ util.arg >= 0 /\ NonDecreasing(util.frames))
    => SampledOk(util.arg)

\* C39 for intervals greater than 0
C39_PositiveInterval ==
  (/\ util.fn = "sampleFrames" /\ util.pc = "returned"
   /\ util.arg >= 1 /\ NonDecreasing(util.frames))
    => SampledOk(util.arg)

====
